---- MODULE Spec2Model ----
(***************************************************************************)
(* Model of the live backend's conversational relay                        *)
(* (src/live-backend/main.py): the session registry kept by                *)
(* ConversationManager, the per-connection handler websocket_conversation, *)
(* its message dispatcher handle_websocket_message and shutdown_event.     *)
(*                                                                         *)
(* The asyncio event loop is single threaded: a coroutine runs without     *)
(* interruption between two awaits that really suspend.  The actions below *)
(* are those uninterrupted stretches.  The handler suspends in             *)
(* websocket.receive() (pc = "recv") and in run_in_executor, while the     *)
(* engine's start_session runs on a worker thread (pc = "starting").       *)
(* The engine (ElevenLabs Conversation), the client and the transport are  *)
(* external: their outcomes (start_session / end_session returning or      *)
(* raising, the client closing the connection, the address the allocator   *)
(* gives a new websocket object) are nondeterministic inputs.              *)
(*                                                                         *)
(* Spec is the registry and the handlers.  SpecList adds the listing       *)
(* endpoint, SpecInbound the binary frames going through a session's       *)
(* WebSocketAudioInterface to the engine, SpecOutbound the engine's output *)
(* calls and the sends they schedule on the event loop.                    *)
(*                                                                         *)
(* The repository's two other servers are processes of their own and are   *)
(* modelled after the relay: SpecHttp is the HTTP backend's session         *)
(* histories (src/backend/main.py), SpecFlask the Flask backend's           *)
(* check-in scheduling (src/backend/app.py).                               *)
(***************************************************************************)
EXTENDS Integers, Sequences, FiniteSets, TLC

\* Bounds of the model.
MaxConns == 2      \* connections accepted during one run
MaxFrames == 2     \* client frames received, over all connections
MaxTime == 1       \* seconds the clock can advance
MaxAddr == 2       \* distinct addresses id(websocket) can take
MaxAudio == 2      \* binary frames received, over all connections
MaxAudioConns == 1 \* connections accepted during one run of the inbound audio path
MaxOut == 2        \* calls of output by the engines, over all sessions
MaxHistory == 2    \* largest configured MAX_HISTORY_LENGTH of the HTTP backend
MaxCalls == 3      \* generate_response calls during one run of the HTTP backend
MaxSessions == 1   \* session identifiers the HTTP backend's clients use
MaxThreads == 2    \* request threads of the Flask backend
MaxClock == 2      \* ticks the Flask backend's clock can advance
MaxCheckIns == 3   \* check-in tasks emitted during one run of the Flask backend

Conns == 1..MaxConns
Addrs == 1..MaxAddr
AudioConns == 1..MaxAudioConns
Calls == 1..MaxCalls
SessionIds == 1..MaxSessions
Threads == 1..MaxThreads

VARIABLES
    apiKey,         \* Config.ELEVENLABS_API_KEY is set (elevenlabs_client exists)
    agentId,        \* Config.AGENT_ID is set
    now,            \* datetime.now(), truncated to seconds
    conversations,  \* conversation_manager.conversations: session_id -> conv_data
    is_active,      \* conv_data["is_active"] of the conv_data a handler created
    engine,         \* the engine Conversation of that conv_data: calls it has seen
    pc,             \* where each connection handler stands
    session_id,     \* the handler's local session_id, NoSession while None
    conv_ref,       \* conv_data captured by an in-flight start_conversation
    open,           \* the client has not closed the connection
    out,            \* what the last step sent, and to which connection
    frames,         \* client frames received so far
    shut,           \* shutdown_event has run
    inp,            \* the client frame the last step received, and from whom
    listing,        \* what the last step's GET /conversations returned
    is_recording,   \* audio_interface.is_recording of a conv_data's bridge
    input_callback, \* audio_interface.input_callback is set
    audio_queue,    \* audio_interface.audio_queue: frames in put order
    forwarded,      \* frames the engine's input callback has been called with
    audio_in,       \* binary frames received so far; a frame is named by its number
    raised,         \* frames the input callback raised an exception on
    pending,        \* sends scheduled on the event loop and not yet run, oldest first
    delivered,      \* audio messages written to each connection, and by which thread
    dropped,        \* audio frames whose send_json raised, per connection
    thread,         \* each engine thread: outside output, or waiting in fut.result
    late,           \* frames whose fut.result(timeout=2.0) timed out
    orphaned,       \* frames whose output was called with the connection closed
    out_n,          \* calls of output so far; a frame is named by its number
    loop_busy,      \* the session whose output call holds the loop's own thread, or 0
    MAX_HISTORY_LENGTH, \* config.MAX_HISTORY_LENGTH of the HTTP backend
    sessions,       \* the HTTP backend's sessions: session_id -> its "history" list
    gen,            \* each generate_response call: where it stands, what it passed
    last_check_in,  \* the Flask backend's global last_check_in, NoCheckIn while None
    clock,          \* datetime.now() of the Flask backend, in ticks
    request,        \* each Flask thread's get_scheduled_tasks: position, current_time
    check_ins       \* the responses that held a check-in task: thread, current_time

\* The session registry and the connection handlers.
control_vars == <<apiKey, agentId, now, conversations, is_active, engine, pc,
                  session_id, conv_ref, open, out, frames, shut, inp, listing>>

\* The inbound half of every session's WebSocketAudioInterface.
bridge_vars == <<is_recording, input_callback, audio_queue, forwarded, audio_in,
                 raised>>

\* The outbound half: the engines' output calls and the loop's scheduled sends.
outbound_vars == <<pending, delivered, dropped, thread, late, orphaned, out_n,
                   loop_busy>>

\* The HTTP backend (src/backend/main.py), a process of its own.
http_vars == <<MAX_HISTORY_LENGTH, sessions, gen>>

\* The Flask backend (src/backend/app.py), a process of its own.
flask_vars == <<last_check_in, clock, request, check_ins>>

backend_vars == <<http_vars, flask_vars>>

\* The live backend's relay.
relay_vars == <<control_vars, bridge_vars, outbound_vars>>

vars == <<relay_vars, backend_vars>>

\* session_id = None
NoSession == <<>>

\* The identifier without the id(websocket) suffix.
MakeSessionIdTimeOnly(t, a) == <<t, 0>>

\* f"session_{datetime.now().strftime('%Y%m%d_%H%M%S')}_{id(websocket)}"
MakeSessionId(t, a) == <<t, a>>

\* Server -> client messages.
Msg(t, s, d) == [type |-> t, session_id |-> s, detail |-> d]
SessionCreated(s) == Msg("session_created", s, "")
ConversationStarted == Msg("conversation_started", NoSession, "")
ConversationStopped == Msg("conversation_stopped", NoSession, "")
\* Values of message.get("text", ""): a text, and "" for a message without one.
Texts == {"hi", ""}

\* f"Echo: {text}"
EchoText(t) == IF t = "hi" THEN "Echo: hi" ELSE "Echo: "

\* The reply to a text with the text returned bare.
TextResponseBare(t) == Msg("text_response", NoSession, t)

TextResponse(t) == Msg("text_response", NoSession, EchoText(t))
ErrNotConfigured == Msg("error", NoSession, "Server error: not configured")
ErrServer == Msg("error", NoSession, "Server error")
ErrNotFound == Msg("error", NoSession, "Failed to start: session not found")
ErrStartFailed == Msg("error", NoSession, "Failed to start: engine raised")
\* f"Unknown message type: {message_type}"
UnknownTypeText(t) ==
    IF t = "None" THEN "Unknown message type: None" ELSE "Unknown message type: ping"
\* The error report for an unknown type, the type left out.
ErrUnknownTypeAnonymous(t) == Msg("error", NoSession, "Unknown message type")

ErrUnknownType(t) == Msg("error", NoSession, UnknownTypeText(t))

\* Values of message.get("type") that are none of start, stop, text.
OtherTypes == {"ping", "None"}

\* websocket.send_json(m) on connection h, reaching a client that has not closed.
Send(h, m) == out' = [conn |-> h, msg |-> m]

\* The step sends nothing.
Silent == out' = [conn |-> 0, msg |-> Msg("none", NoSession, "")]

\* A client frame: a text frame holding a JSON object whose "type" is type, a text
\* frame that is no JSON object, or a binary frame.
Frame(h, k, t) == [conn |-> h, frame |-> k, type |-> t, text |-> ""]

\* data = await websocket.receive() returned this frame on connection h.
Input(h, k, t) == inp' = Frame(h, k, t)

\* The step receives no frame.
NoInput == inp' = Frame(0, "none", "")

\* No GET /conversations is answered in this step.
NoListing == [count |-> 0, conversations |-> <<>>, taken |-> FALSE]

\* A step of the registry and the handlers that touches no bridge.
ControlOnly ==
    /\ listing' = NoListing
    /\ UNCHANGED bridge_vars
    /\ UNCHANGED outbound_vars
    /\ UNCHANGED backend_vars

\* The configuration check with the agent identifier forgotten.
ConfiguredKeyOnly == apiKey

\* `not self.elevenlabs_client or not config.AGENT_ID` is false
Configured == apiKey /\ agentId

\* The conv_data object of handler o is a value of the registry reg.
InReg(reg, o) == \E k \in DOMAIN reg : reg[k] = o

InRegistry(o) == InReg(conversations, o)

\* A websocket object is alive while its handler runs or the registry holds it;
\* id() of a live object is not given to a new one.
AddrInUse(a) ==
    \E h \in Conns : /\ session_id[h] # NoSession
                     /\ session_id[h][2] = a
                     /\ (pc[h] \notin {"idle", "exited"} \/ InRegistry(h))

\* Some websocket object has had address a.  Addresses no object has had yet are
\* interchangeable: the allocator's choice among them is the lowest.
AddrUsed(a) == \E h \in Conns : session_id[h] # NoSession /\ session_id[h][2] = a

Allocatable(a) ==
    /\ ~AddrInUse(a)
    /\ AddrUsed(a) \/ \A b \in Addrs : b < a => AddrUsed(b)

\* The manager's state as one value, so that calls compose inside one step.
Mgr == [conversations |-> conversations, is_active |-> is_active, engine |-> engine]

SetMgr(st) ==
    /\ conversations' = st.conversations
    /\ is_active' = st.is_active
    /\ engine' = st.engine

\* del d[k]
Remove(reg, k) == [x \in DOMAIN reg \ {k} |-> reg[x]]

\* d[k] = v
Insert(reg, k, v) == [x \in DOMAIN reg \cup {k} |-> IF x = k THEN v ELSE reg[x]]

\* ConversationManager.end_conversation; ok: conversation.end_session() returns.
end_conversation(st, sid, ok) ==
    IF sid \notin DOMAIN st.conversations
    THEN st
    ELSE LET o == st.conversations[sid]
             called == [st EXCEPT !.engine[o].ends = @ + 1]
         IN  IF ok
             THEN [called EXCEPT !.is_active[o] = FALSE,
                                 !.conversations = Remove(@, sid)]
             ELSE called

\* end_session's outcome is an input of a step only where the step calls it.
EndCalled(sid, okEnd) == IF sid \in DOMAIN conversations THEN TRUE ELSE okEnd

\* The relay after construction, before any connection.
RelayIdle ==
    /\ now = 0
    /\ conversations = <<>>
    /\ is_active = [h \in Conns |-> FALSE]
    /\ engine = [h \in Conns |-> [starts |-> 0, ends |-> 0]]
    /\ pc = [h \in Conns |-> "idle"]
    /\ session_id = [h \in Conns |-> NoSession]
    /\ conv_ref = [h \in Conns |-> 0]
    /\ open = [h \in Conns |-> FALSE]
    /\ out = [conn |-> 0, msg |-> Msg("none", NoSession, "")]
    /\ frames = 0
    /\ shut = FALSE
    /\ inp = Frame(0, "none", "")
    /\ listing = NoListing
    /\ is_recording = [h \in Conns |-> FALSE]
    /\ input_callback = [h \in Conns |-> FALSE]
    /\ audio_queue = [h \in Conns |-> <<>>]
    /\ forwarded = [h \in Conns |-> <<>>]
    /\ audio_in = 0
    /\ raised = {}
    /\ pending = <<>>
    /\ delivered = [h \in Conns |-> <<>>]
    /\ dropped = [h \in Conns |-> <<>>]
    /\ thread = [h \in Conns |-> [at |-> "idle", frame |-> 0]]
    /\ late = {}
    /\ orphaned = {}
    /\ out_n = 0
    /\ loop_busy = 0

\* A generate_response call that has not been made.
NoCall == [at |-> "idle", session |-> 0, messages |-> <<>>]

\* The HTTP backend after import with the default configuration: `sessions = {}`,
\* MAX_HISTORY_LENGTH = int(os.getenv("MAX_HISTORY_LENGTH", "20")).
HttpIdle ==
    /\ MAX_HISTORY_LENGTH = 20
    /\ sessions = <<>>
    /\ gen = [r \in Calls |-> NoCall]

\* last_check_in = None
NoCheckIn == -1

\* The Flask backend after import: no check-in yet, no request being handled.
FlaskIdle ==
    /\ last_check_in = NoCheckIn
    /\ clock = 0
    /\ request = [t \in Threads |-> [at |-> "idle", current_time |-> 0]]
    /\ check_ins = <<>>

Init ==
    /\ apiKey \in BOOLEAN
    /\ agentId \in BOOLEAN
    /\ RelayIdle
    /\ HttpIdle
    /\ FlaskIdle

\* Some identifier carries the current second.
StampUsed == {h \in Conns : session_id[h] # NoSession /\ session_id[h][1] = now} # {}

\* The clock passes to the next second.  The clock is read by create_conversation
\* alone, so only a tick that separates two creations is a step of its own.
Tick ==
    /\ now < MaxTime
    /\ StampUsed
    /\ {h \in Conns : pc[h] = "idle"} # {}
    /\ now' = now + 1
    /\ Silent
    /\ NoInput
    /\ ControlOnly
    /\ UNCHANGED <<apiKey, agentId, conversations, is_active, engine, pc,
                   session_id, conv_ref, open, frames, shut>>

\* The finally block of websocket_conversation: `if session_id:` end the session,
\* then the handler returns and the server closes the connection.
Cleanup(h, st, sid, okEnd) ==
    /\ SetMgr(end_conversation(st, sid, okEnd))
    /\ pc' = [pc EXCEPT ![h] = "exited"]
    /\ open' = [open EXCEPT ![h] = FALSE]

\* ConversationManager.create_conversation, after the configuration check: the
\* session is stored under its identifier with is_active False.
create_conversation(st, h, sid) ==
    [st EXCEPT !.conversations = Insert(@, sid, h), !.is_active[h] = FALSE]

\* websocket_conversation up to its first receive: accept, create the session and
\* send session_created.  a: the address of the new websocket object; alive: the
\* client is still there when the first message is sent.  Connections are numbered
\* in the order they are accepted.  The server accepts connections until it
\* shuts down: the shutdown hook runs once its listening socket is closed.
Connect(h, a, alive, okEnd) ==
    /\ pc[h] = "idle"
    /\ ~shut
    /\ \A g \in Conns : g < h => pc[g] # "idle"
    /\ Allocatable(a)
    /\ IF Configured /\ ~alive THEN TRUE ELSE okEnd
    /\ IF Configured
       THEN LET sid == MakeSessionId(now, a)
                st == create_conversation(Mgr, h, sid)
            IN  /\ session_id' = [session_id EXCEPT ![h] = sid]
                /\ IF alive
                   THEN /\ Send(h, SessionCreated(sid))
                        /\ SetMgr(st)
                        /\ pc' = [pc EXCEPT ![h] = "recv"]
                        /\ open' = [open EXCEPT ![h] = TRUE]
                   ELSE \* send_json raises, the error report raises too
                        /\ Silent
                        /\ Cleanup(h, st, sid, okEnd)
       ELSE \* create_conversation raises before session_id is assigned
            /\ UNCHANGED session_id
            /\ IF alive THEN Send(h, ErrNotConfigured) ELSE Silent
            /\ Cleanup(h, Mgr, NoSession, okEnd)
    /\ NoInput
    /\ ControlOnly
    /\ UNCHANGED <<apiKey, agentId, now, conv_ref, frames, shut>>

\* The client closes the connection while its start is in flight.  (A handler
\* suspended in receive() sees a close at once: that is Disconnect.)
ClientClose(h) ==
    /\ pc[h] = "starting"
    /\ open[h]
    /\ open' = [open EXCEPT ![h] = FALSE]
    /\ Silent
    /\ NoInput
    /\ ControlOnly
    /\ UNCHANGED <<apiKey, agentId, now, conversations, is_active, engine, pc,
                   session_id, conv_ref, frames, shut>>

\* A receive that gets the loop only while no start_session is running: the
\* engine's start called on the loop's own thread.
ReceivesUnlessStartRuns(h) ==
    /\ pc[h] = "recv"
    /\ {g \in Conns : pc[g] = "starting"} = {}
    /\ open[h]
    /\ frames < MaxFrames
    /\ frames' = frames + 1

\* A receive loop that goes on receiving while a start is in flight.
ReceivesWhileStarting(h) ==
    /\ pc[h] \in {"recv", "starting"}
    /\ open[h]
    /\ frames < MaxFrames
    /\ frames' = frames + 1

\* A frame arrives from a client that has not closed.
Receives(h) ==
    /\ pc[h] = "recv"
    /\ open[h]
    /\ frames < MaxFrames
    /\ frames' = frames + 1

\* start_conversation making a session for an identifier it does not find.
session_not_found_creates(st, h, sid) == create_conversation(st, h, sid)

\* `if session_id not in self.conversations: raise HTTPException(404)`: the
\* manager is left as it is.
session_not_found(st, h, sid) == st

\* {"type": "start"}: start_conversation up to run_in_executor, or its 404.
HandleStart(h) ==
    /\ Receives(h)
    /\ IF session_id[h] \in DOMAIN conversations
       THEN /\ conv_ref' = [conv_ref EXCEPT ![h] = conversations[session_id[h]]]
            /\ pc' = [pc EXCEPT ![h] = "starting"]
            /\ Silent
            /\ UNCHANGED <<conversations, is_active, engine>>
       ELSE /\ Send(h, ErrNotFound)
            /\ SetMgr(session_not_found(Mgr, h, session_id[h]))
            /\ UNCHANGED <<conv_ref, pc>>
    /\ Input(h, "json", "start")
    /\ ControlOnly
    /\ UNCHANGED <<apiKey, agentId, now, session_id, open, shut>>

\* A start's reply with the error branch lost: conversation_started whatever
\* start_conversation did.
StartReplyAlwaysStarted(ok) == ConversationStarted

\* The `start` branch of handle_websocket_message: conversation_started after
\* start_conversation returned, error after it raised.
StartReply(ok) == IF ok THEN ConversationStarted ELSE ErrStartFailed

\* The worker thread's conversation.start_session() returns (ok) or raises, and
\* start_conversation and the `start` branch run on to the next receive.
StartReturn(h, ok, okEnd) ==
    /\ pc[h] = "starting"
    /\ IF open[h] THEN okEnd ELSE TRUE
    /\ EndCalled(session_id[h], okEnd)
    /\ LET o == conv_ref[h]
           st == IF ok
                 THEN [Mgr EXCEPT !.engine[o].starts = @ + 1, !.is_active[o] = TRUE]
                 ELSE Mgr
       IN  IF open[h]
           THEN /\ Send(h, StartReply(ok))
                /\ SetMgr(st)
                /\ pc' = [pc EXCEPT ![h] = "recv"]
                /\ UNCHANGED open
           ELSE \* every send_json raises: out of the loop, into finally
                /\ Silent
                /\ Cleanup(h, st, session_id[h], okEnd)
    /\ conv_ref' = [conv_ref EXCEPT ![h] = 0]
    /\ NoInput
    /\ ControlOnly
    /\ UNCHANGED <<apiKey, agentId, now, session_id, frames, shut>>

\* {"type": "stop"}
HandleStop(h, okEnd) ==
    /\ Receives(h)
    /\ EndCalled(session_id[h], okEnd)
    /\ SetMgr(end_conversation(Mgr, session_id[h], okEnd))
    /\ Send(h, ConversationStopped)
    /\ Input(h, "json", "stop")
    /\ ControlOnly
    /\ UNCHANGED <<apiKey, agentId, now, pc, session_id, conv_ref, open, shut>>

\* {"type": "text"}
HandleText(h, t) ==
    /\ Receives(h)
    /\ Send(h, TextResponse(t))
    /\ inp' = [Frame(h, "json", "text") EXCEPT !.text = t]
    /\ ControlOnly
    /\ UNCHANGED <<apiKey, agentId, now, conversations, is_active, engine, pc,
                   session_id, conv_ref, open, shut>>

\* any other type: t is what message.get("type") gives, "None" when the object
\* has no "type".
HandleUnknown(h, t) ==
    /\ Receives(h)
    /\ Send(h, ErrUnknownType(t))
    /\ Input(h, "json", t)
    /\ ControlOnly
    /\ UNCHANGED <<apiKey, agentId, now, conversations, is_active, engine, pc,
                   session_id, conv_ref, open, shut>>

\* A text frame that json.loads rejects, or JSON that is no object (message.get
\* raises): except Exception reports it, finally ends the session.
HandleBadJson(h, okEnd) ==
    /\ Receives(h)
    /\ EndCalled(session_id[h], okEnd)
    /\ Send(h, ErrServer)
    /\ Cleanup(h, Mgr, session_id[h], okEnd)
    /\ Input(h, "badtext", "")
    /\ ControlOnly
    /\ UNCHANGED <<apiKey, agentId, now, session_id, conv_ref, shut>>

\* The client closes the connection and receive() reports it: the handler leaves
\* the loop (no error report can be sent any more) and finally ends the session.
Disconnect(h, okEnd) ==
    /\ pc[h] = "recv"
    /\ EndCalled(session_id[h], okEnd)
    /\ Silent
    /\ Cleanup(h, Mgr, session_id[h], okEnd)
    /\ NoInput
    /\ ControlOnly
    /\ UNCHANGED <<apiKey, agentId, now, session_id, conv_ref, frames, shut>>

RECURSIVE EndAll(_, _, _)
\* for session_id in list(keys): await end_conversation(session_id)
EndAll(st, keys, fail) ==
    IF keys = {}
    THEN st
    ELSE LET k == CHOOSE x \in keys : TRUE
         IN  EndAll(end_conversation(st, k, k \notin fail), keys \ {k}, fail)

\* shutdown_event: end every session of the registry.  fail: the sessions whose
\* end_session raises.
shutdown_event(fail) ==
    /\ ~shut
    /\ shut' = TRUE
    /\ SetMgr(EndAll(Mgr, DOMAIN conversations, fail))
    /\ Silent
    /\ NoInput
    /\ ControlOnly
    /\ UNCHANGED <<apiKey, agentId, now, pc, session_id, conv_ref, open, frames>>

Next ==
    \/ Tick
    \/ \E h \in Conns, a \in Addrs, alive \in BOOLEAN, okEnd \in BOOLEAN :
           Connect(h, a, alive, okEnd)
    \/ \E h \in Conns : ClientClose(h)
    \/ \E h \in Conns : HandleStart(h)
    \/ \E h \in Conns, ok \in BOOLEAN, okEnd \in BOOLEAN : StartReturn(h, ok, okEnd)
    \/ \E h \in Conns, okEnd \in BOOLEAN : HandleStop(h, okEnd)
    \/ \E h \in Conns, t \in Texts : HandleText(h, t)
    \/ \E h \in Conns, t \in OtherTypes : HandleUnknown(h, t)
    \/ \E h \in Conns, okEnd \in BOOLEAN : HandleBadJson(h, okEnd)
    \/ \E h \in Conns, okEnd \in BOOLEAN : Disconnect(h, okEnd)
    \/ \E fail \in SUBSET DOMAIN conversations : shutdown_event(fail)

Spec == Init /\ [][Next]_vars

\* The relay when every engine start that is in flight returns or raises: the
\* worker thread's start_session call ends, and the loop resumes the handler.
SpecClose ==
    /\ Init
    /\ [][Next]_vars
    /\ \A h \in Conns :
           WF_vars(\E ok \in BOOLEAN, okEnd \in BOOLEAN : StartReturn(h, ok, okEnd))

(***************************************************************************)
(* Inbound audio: binary frames from the browser pass through the          *)
(* session's WebSocketAudioInterface to the engine's input callback.  The  *)
(* engine calls the interface's start and stop from its own thread.        *)
(***************************************************************************)

\* The WebSocketAudioInterface of conv_data o as one value.
Bridge(o) ==
    [is_recording |-> is_recording[o], input_callback |-> input_callback[o],
     audio_queue |-> audio_queue[o], forwarded |-> forwarded[o]]

SetBridge(o, br) ==
    /\ is_recording' = [is_recording EXCEPT ![o] = br.is_recording]
    /\ input_callback' = [input_callback EXCEPT ![o] = br.input_callback]
    /\ audio_queue' = [audio_queue EXCEPT ![o] = br.audio_queue]
    /\ forwarded' = [forwarded EXCEPT ![o] = br.forwarded]

\* queue_audio forwarding whenever a callback is set, recording or not.
queue_audio_unless_no_callback(br, f) ==
    LET queued == [br EXCEPT !.audio_queue = Append(@, f)]
    IN  IF br.input_callback
        THEN [queued EXCEPT !.forwarded = Append(@, f)]
        ELSE queued

\* queue_audio forwarding without queueing.
queue_audio_forward_only(br, f) ==
    IF br.input_callback /\ br.is_recording
    THEN [br EXCEPT !.forwarded = Append(@, f)]
    ELSE [br EXCEPT !.audio_queue = Append(@, f)]

\* queue_audio handing the engine the newest frame first.
queue_audio_newest_first(br, f) ==
    LET queued == [br EXCEPT !.audio_queue = Append(@, f)]
    IN  IF br.input_callback /\ br.is_recording
        THEN [queued EXCEPT !.forwarded = <<f>> \o @]
        ELSE queued

\* WebSocketAudioInterface.queue_audio(audio_data): put the frame on the queue,
\* then call the input callback with it if one is set and recording is on.
queue_audio(br, f) ==
    LET queued == [br EXCEPT !.audio_queue = Append(@, f)]
    IN  IF br.input_callback /\ br.is_recording
        THEN [queued EXCEPT !.forwarded = Append(@, f)]
        ELSE queued

\* WebSocketAudioInterface.start(input_callback)
start(br) == [br EXCEPT !.input_callback = TRUE, !.is_recording = TRUE]

\* WebSocketAudioInterface.stop()
stop(br) == [br EXCEPT !.is_recording = FALSE]

\* A step of the audio path: it sends no message and takes no listing.
AudioQuiet ==
    /\ Silent
    /\ listing' = NoListing
    /\ UNCHANGED outbound_vars
    /\ UNCHANGED backend_vars
    /\ UNCHANGED <<apiKey, agentId, now, conversations, is_active, engine,
                   session_id, conv_ref, open, frames, shut>>

\* A step of the audio path that leaves every handler where it stands.
AudioOnly == AudioQuiet /\ UNCHANGED pc

\* The bytes branch handing every frame to the bridge its handler created.
audio_target_own(h) == {h}

\* `if session_id in conversation_manager.conversations:` the bridge of the
\* registered conv_data, and none when the session is not registered.
audio_target(h) ==
    IF session_id[h] \in DOMAIN conversations
    THEN {conversations[session_id[h]]}
    ELSE {}

\* The `bytes` branch of the receive loop: a binary frame arrives on connection
\* h and goes to the bridge of the session, if the session is registered.
ReceiveBytes(h) ==
    /\ pc[h] = "recv"
    /\ open[h]
    /\ audio_in < MaxAudio
    /\ audio_in' = audio_in + 1
    /\ Input(h, "bytes", "")
    /\ IF audio_target(h) # {}
       THEN LET o == CHOOSE x \in audio_target(h) : TRUE
            IN  SetBridge(o, queue_audio(Bridge(o), audio_in + 1))
       ELSE UNCHANGED <<is_recording, input_callback, audio_queue, forwarded>>
    /\ UNCHANGED raised
    /\ AudioOnly

\* The handler's position once queue_audio has logged an exception of the input
\* callback: queue_audio returns and the receive loop goes on.
\* This variant lets the exception escape to the handler, which then leaves.
callback_raised_escapes(p) == "exited"

callback_raised(p) == p

\* The `bytes` branch when the engine's input callback raises: queue_audio has
\* put the frame on the queue and called the callback with it; its except
\* clause logs the exception.
CallbackRaises(h) ==
    /\ pc[h] = "recv"
    /\ open[h]
    /\ audio_in < MaxAudio
    /\ session_id[h] \in DOMAIN conversations
    /\ LET o == conversations[session_id[h]]
       IN  /\ input_callback[o]
           /\ is_recording[o]
           /\ SetBridge(o, queue_audio(Bridge(o), audio_in + 1))
    /\ audio_in' = audio_in + 1
    /\ raised' = raised \cup {audio_in + 1}
    /\ Input(h, "bytes", "")
    /\ pc' = [pc EXCEPT ![h] = callback_raised(@)]
    /\ AudioQuiet

\* The engine, once its session has been started, registers its input callback:
\* it calls audio_interface.start from its own thread.
BridgeStart(o) ==
    /\ engine[o].starts > 0
    /\ ~is_recording[o]
    /\ SetBridge(o, start(Bridge(o)))
    /\ NoInput
    /\ UNCHANGED <<audio_in, raised>>
    /\ AudioOnly

\* The engine calls audio_interface.stop: its session is being ended, or its own
\* connection has closed.
BridgeStop(o) ==
    /\ is_recording[o]
    /\ SetBridge(o, stop(Bridge(o)))
    /\ NoInput
    /\ UNCHANGED <<audio_in, raised>>
    /\ AudioOnly

\* The operations that reach a session's bridge: those that create, start and end
\* the session and those of the audio path.
NextInbound ==
    \/ \E h \in AudioConns, a \in Addrs, alive \in BOOLEAN, okEnd \in BOOLEAN :
           Connect(h, a, alive, okEnd)
    \/ \E h \in AudioConns : HandleStart(h)
    \/ \E h \in AudioConns, ok \in BOOLEAN, okEnd \in BOOLEAN : StartReturn(h, ok, okEnd)
    \/ \E h \in AudioConns, okEnd \in BOOLEAN : HandleStop(h, okEnd)
    \/ \E h \in AudioConns, okEnd \in BOOLEAN : Disconnect(h, okEnd)
    \/ \E h \in AudioConns : ReceiveBytes(h)
    \/ \E h \in AudioConns : CallbackRaises(h)
    \/ \E o \in AudioConns : BridgeStart(o)
    \/ \E o \in AudioConns : BridgeStop(o)

\* The relay with audio coming in from the browsers.
SpecInbound == Init /\ [][NextInbound]_vars

(***************************************************************************)
(* Outbound audio: the engine calls output from its own thread; output     *)
(* schedules websocket.send_json on the event loop with                    *)
(* run_coroutine_threadsafe and waits up to two seconds for it.  The loop  *)
(* runs what was scheduled in the order it was scheduled.                  *)
(***************************************************************************)

\* The outbound state as one value.
Outbound ==
    [pending |-> pending, delivered |-> delivered, dropped |-> dropped,
     thread |-> thread, late |-> late, orphaned |-> orphaned]

SetOutbound(ob) ==
    /\ pending' = ob.pending
    /\ delivered' = ob.delivered
    /\ dropped' = ob.dropped
    /\ thread' = ob.thread
    /\ late' = ob.late
    /\ orphaned' = ob.orphaned

\* An engine thread outside output.
Idle == [at |-> "idle", frame |-> 0]

\* output writing to the connection itself, on the thread that called it.
output_on_calling_thread(ob, o, f) ==
    [ob EXCEPT !.delivered[o] = Append(@, [frame |-> f, by |-> "engine"])]

\* output with its send put before the sends already scheduled.
output_scheduled_first(ob, o, f) ==
    [ob EXCEPT !.pending = <<[conn |-> o, frame |-> f]>> \o @,
               !.thread[o] = [at |-> "waiting", frame |-> f]]

\* WebSocketAudioInterface.output(audio_data) up to fut.result: the send of
\* frame f to the connection of session o is scheduled behind those already
\* scheduled, and the calling thread waits for it.
output(ob, o, f) ==
    [ob EXCEPT !.pending = Append(@, [conn |-> o, frame |-> f]),
               !.thread[o] = [at |-> "waiting", frame |-> f],
               !.orphaned = IF open[o] THEN @ ELSE @ \cup {f}]

\* fut.result outside any try: an exception of the send reaches the caller.
after_result_unguarded(ok) == IF ok THEN Idle ELSE [at |-> "raised", frame |-> 0]

\* try: fut.result(timeout=2.0) except Exception: pass -- output returns
\* whether the send returned (ok) or raised.
after_result(ok) == Idle

\* The event loop runs the oldest scheduled send.  ok: the connection is open
\* and send_json writes the message; otherwise send_json raises.  The thread
\* still waiting for this send gets its result.
run_send(ob, ok) ==
    LET m == Head(ob.pending)
        sent == IF ok
                THEN [ob EXCEPT !.delivered[m.conn] =
                                    Append(@, [frame |-> m.frame, by |-> "loop"])]
                ELSE [ob EXCEPT !.dropped[m.conn] = Append(@, m.frame)]
        run == [sent EXCEPT !.pending = Tail(@)]
    IN  IF ob.thread[m.conn] = [at |-> "waiting", frame |-> m.frame]
        THEN [run EXCEPT !.thread[m.conn] = after_result(ok)]
        ELSE run

\* A step of the outbound path: no frame is received, no control message sent,
\* no handler moves.
OutboundQuiet ==
    /\ Silent
    /\ NoInput
    /\ listing' = NoListing
    /\ UNCHANGED bridge_vars
    /\ UNCHANGED backend_vars
    /\ UNCHANGED <<apiKey, agentId, now, pc, session_id, conv_ref, open, frames, shut>>

\* Such a step in which the manager is not involved.
OutboundOnly ==
    /\ OutboundQuiet
    /\ UNCHANGED <<conversations, is_active, engine>>

\* A failed delivery that ends the session: the manager drops the entries of
\* conv_data o and clears its flag.
delivery_failed_ends_session(st, o) ==
    [st EXCEPT !.is_active[o] = FALSE,
               !.conversations =
                   [k \in {x \in DOMAIN @ : @[x] # o} |-> @[k]]]

\* `except Exception: pass` and the logger.error of the outer except: what a
\* failed or timed-out delivery of session o does to the manager's state.
delivery_failed(st, o) == st

\* The engine of session o, once started, has agent audio and calls output.
Output(o) ==
    /\ engine[o].starts > 0
    /\ thread[o] = Idle
    /\ out_n < MaxOut
    /\ out_n' = out_n + 1
    /\ SetOutbound(output(Outbound, o, out_n + 1))
    /\ UNCHANGED loop_busy
    /\ OutboundOnly

\* output is called on the thread of the event loop itself: the send is
\* scheduled on the loop, which cannot run it while its thread waits in
\* fut.result.
OutputOnLoop(o) ==
    /\ engine[o].starts > 0
    /\ thread[o] = Idle
    /\ loop_busy = 0
    /\ out_n < MaxOut
    /\ out_n' = out_n + 1
    /\ SetOutbound(output(Outbound, o, out_n + 1))
    /\ loop_busy' = o
    /\ OutboundOnly

\* The event loop runs the send at the head of its queue.
SendAudio ==
    /\ pending # <<>>
    /\ loop_busy = 0
    /\ SetOutbound(run_send(Outbound, open[Head(pending).conn]))
    /\ SetMgr(IF open[Head(pending).conn]
              THEN Mgr
              ELSE delivery_failed(Mgr, Head(pending).conn))
    /\ UNCHANGED <<out_n, loop_busy>>
    /\ OutboundQuiet

\* fut.result() without a timeout: the wait is never given up.
TimesOutNever(o) == FALSE

\* The two seconds of fut.result(timeout=2.0) can run out while thread o waits.
TimesOut(o) == thread[o].at = "waiting"

\* fut.result(timeout=2.0) times out with the send still scheduled: the
\* exception is swallowed, output returns, the send stays scheduled.
OutputTimeout(o) ==
    /\ TimesOut(o)
    /\ thread' = [thread EXCEPT ![o] = Idle]
    /\ late' = late \cup {thread[o].frame}
    /\ loop_busy' = IF loop_busy = o THEN 0 ELSE loop_busy
    /\ SetMgr(delivery_failed(Mgr, o))
    /\ UNCHANGED <<pending, delivered, dropped, orphaned, out_n>>
    /\ OutboundQuiet

\* The operations that reach the outbound path: those that create and start a
\* session and close its connection, and those of the audio going out.
NextOutbound ==
    \/ \E h \in Conns, a \in Addrs, alive \in BOOLEAN, okEnd \in BOOLEAN :
           Connect(h, a, alive, okEnd)
    \/ \E h \in Conns : HandleStart(h)
    \/ \E h \in Conns, ok \in BOOLEAN, okEnd \in BOOLEAN : StartReturn(h, ok, okEnd)
    \/ \E h \in Conns, okEnd \in BOOLEAN : Disconnect(h, okEnd)
    \/ \E o \in Conns : Output(o)
    \/ SendAudio
    \/ \E o \in Conns : OutputTimeout(o)

\* The relay with audio going out to the browsers.
SpecOutbound == Init /\ [][NextOutbound]_vars

\* The coroutines of the handlers run on the event loop, when its thread is free.
LoopFree == loop_busy = 0

\* The outbound path with output called from engine threads and from the
\* loop's own thread.
NextOutboundLive ==
    \/ /\ LoopFree
       /\ \E h \in AudioConns, a \in Addrs, alive \in BOOLEAN, okEnd \in BOOLEAN :
              Connect(h, a, alive, okEnd)
    \/ /\ LoopFree
       /\ \E h \in AudioConns : HandleStart(h)
    \/ /\ LoopFree
       /\ \E h \in AudioConns, ok \in BOOLEAN, okEnd \in BOOLEAN :
              StartReturn(h, ok, okEnd)
    \/ /\ LoopFree
       /\ \E h \in AudioConns, okEnd \in BOOLEAN : Disconnect(h, okEnd)
    \/ \E o \in AudioConns : Output(o)
    \/ \E o \in AudioConns : OutputOnLoop(o)
    \/ SendAudio
    \/ \E o \in AudioConns : OutputTimeout(o)

\* The wait in output is bounded: a thread waiting in fut.result gets its
\* timeout if it gets nothing else.  Nothing obliges the loop to run a send.
SpecOutboundLive ==
    /\ Init
    /\ [][NextOutboundLive]_vars
    /\ \A o \in Conns : WF_vars(OutputTimeout(o))

\* The outbound path of a session that its client stops: the engine thread's
\* output calls and the loop's sends interleave with the handling of `stop`.
NextStop ==
    \/ \E h \in AudioConns, a \in Addrs, alive \in BOOLEAN, okEnd \in BOOLEAN :
           Connect(h, a, alive, okEnd)
    \/ \E h \in AudioConns : HandleStart(h)
    \/ \E h \in AudioConns, ok \in BOOLEAN, okEnd \in BOOLEAN : StartReturn(h, ok, okEnd)
    \/ \E h \in AudioConns, okEnd \in BOOLEAN : HandleStop(h, okEnd)
    \/ \E h \in AudioConns, okEnd \in BOOLEAN : Disconnect(h, okEnd)
    \/ \E o \in AudioConns : Output(o)
    \/ SendAudio
    \/ \E o \in AudioConns : OutputTimeout(o)

SpecStop == Init /\ [][NextStop]_vars

\* The handlers of several connections sharing the event loop: connections are
\* accepted, started and closed, and send text messages and audio frames.
NextLoop ==
    \/ \E h \in Conns, a \in Addrs, alive \in BOOLEAN, okEnd \in BOOLEAN :
           Connect(h, a, alive, okEnd)
    \/ \E h \in Conns : HandleStart(h)
    \/ \E h \in Conns, ok \in BOOLEAN, okEnd \in BOOLEAN : StartReturn(h, ok, okEnd)
    \/ \E h \in Conns, t \in Texts : HandleText(h, t)
    \/ \E h \in Conns : ReceiveBytes(h)
    \/ \E h \in Conns, okEnd \in BOOLEAN : Disconnect(h, okEnd)

SpecLoop == Init /\ [][NextLoop]_vars

RECURSIVE ListItems(_, _, _)
\* for session_id, conv_data in conversations.items(): conversations.append(...)
ListItems(reg, act, keys) ==
    IF keys = {}
    THEN <<>>
    ELSE LET k == CHOOSE x \in keys : TRUE
         IN  <<[session_id |-> k, is_active |-> act[reg[k]]]>>
                 \o ListItems(reg, act, keys \ {k})

\* The body of list_conversations: the entries of the registry and their number.
list_conversations(reg, act) ==
    LET items == ListItems(reg, act, DOMAIN reg)
    IN  [count |-> Len(items), conversations |-> items, taken |-> TRUE]

\* GET /conversations: the coroutine has no await, it runs between two steps of
\* the handlers.
ListConversations ==
    /\ listing' = list_conversations(conversations, is_active)
    /\ Silent
    /\ NoInput
    /\ UNCHANGED bridge_vars
    /\ UNCHANGED outbound_vars
    /\ UNCHANGED backend_vars
    /\ UNCHANGED <<apiKey, agentId, now, conversations, is_active, engine, pc,
                   session_id, conv_ref, open, frames, shut>>

NextList ==
    \/ Next
    \/ ListConversations

\* The relay with listings taken at any moment.
SpecList == Init /\ [][NextList]_vars

(***************************************************************************)
(* The HTTP backend (src/backend/main.py): SessionManager's in-memory       *)
(* `sessions` and VoiceAssistant.generate_response.  Its handlers are       *)
(* coroutines on one event loop; generate_response suspends once, in the    *)
(* executor call to the model.                                             *)
(***************************************************************************)

\* Python's h[-n:] for n >= 0: the last n entries of h, all of h when it has
\* fewer than n, and all of h when n = 0, since -0 is 0 and h[0:] is h.
last_entries(h, n) ==
    IF n = 0 THEN h ELSE SubSeq(h, IF Len(h) > n THEN Len(h) - n + 1 ELSE 1, Len(h))

\* An entry of a history: its role and the generate_response call it is from.
Entry(role, r) == [role |-> role, call |-> r]

\* SessionManager.get_or_create_session for a given identifier.
get_or_create_session(ss, sid) ==
    IF sid \in DOMAIN ss THEN ss ELSE Insert(ss, sid, <<>>)

\* SessionManager.get_history
get_history(ss, sid) == IF sid \in DOMAIN ss THEN ss[sid] ELSE <<>>

\* SessionManager.add_to_history: append, then cut a history longer than
\* MAX_HISTORY_LENGTH * 2 to history[-MAX_HISTORY_LENGTH:].
add_to_history(ss, sid, e) ==
    IF sid \in DOMAIN ss
    THEN LET h == Append(ss[sid], e)
         IN  [ss EXCEPT ![sid] = IF Len(h) > MAX_HISTORY_LENGTH * 2
                                 THEN last_entries(h, MAX_HISTORY_LENGTH)
                                 ELSE h]
    ELSE ss

\* generate_response having appended the user entry before the model request:
\* the entry of a failed call stays.
model_failed_keeps_user(ss, r, sid) == add_to_history(ss, sid, Entry("user", r))

\* `except Exception`: the apology is returned; the history is as it was.
model_failed(ss, r, sid) == ss

\* "Update history": the user entry, then the assistant entry, with no await
\* in between.
update_history(ss, r, sid) ==
    add_to_history(add_to_history(ss, sid, Entry("user", r)), sid, Entry("assistant", r))

\* A step of the HTTP backend.
HttpOnly == UNCHANGED relay_vars /\ UNCHANGED flask_vars

\* POST /process-text for session sid, up to the executor call of
\* generate_response: the session is looked up or made, and the messages for
\* the model are built from history[-MAX_HISTORY_LENGTH:].
ProcessText(r, sid) ==
    /\ gen[r].at = "idle"
    /\ \A q \in Calls : q < r => gen[q].at # "idle"
    /\ sessions' = get_or_create_session(sessions, sid)
    /\ gen' = [gen EXCEPT ![r] =
                   [at |-> "model", session |-> sid,
                    messages |-> last_entries(get_history(sessions', sid),
                                              MAX_HISTORY_LENGTH)]]
    /\ UNCHANGED MAX_HISTORY_LENGTH
    /\ HttpOnly

\* The model request of call r returns (ok) or raises; generate_response runs
\* to its end: it updates the history, or its except clause returns the apology.
ModelReturns(r, ok) ==
    /\ gen[r].at = "model"
    /\ sessions' = IF ok
                   THEN update_history(sessions, r, gen[r].session)
                   ELSE model_failed(sessions, r, gen[r].session)
    /\ gen' = [gen EXCEPT ![r].at = IF ok THEN "done" ELSE "failed"]
    /\ UNCHANGED MAX_HISTORY_LENGTH
    /\ HttpOnly

\* DELETE /session/{session_id} of a session that exists.
clear_session(sid) ==
    /\ sid \in DOMAIN sessions
    /\ sessions' = Remove(sessions, sid)
    /\ UNCHANGED <<MAX_HISTORY_LENGTH, gen>>
    /\ HttpOnly

\* The HTTP backend after import: MAX_HISTORY_LENGTH is whatever integer the
\* environment gives, here one of 0..MaxHistory.
InitHttp ==
    /\ apiKey = FALSE
    /\ agentId = FALSE
    /\ RelayIdle
    /\ MAX_HISTORY_LENGTH \in 0..MaxHistory
    /\ sessions = <<>>
    /\ gen = [r \in Calls |-> NoCall]
    /\ FlaskIdle

NextHttp ==
    \/ \E r \in Calls, sid \in SessionIds : ProcessText(r, sid)
    \/ \E r \in Calls, ok \in BOOLEAN : ModelReturns(r, ok)
    \/ \E sid \in SessionIds : clear_session(sid)

SpecHttp == InitHttp /\ [][NextHttp]_vars

(***************************************************************************)
(* The Flask backend (src/backend/app.py): get_scheduled_tasks and the      *)
(* global last_check_in.  Flask's server handles each request on a thread  *)
(* of its own; the threads share the globals, and a thread can be          *)
(* preempted between reading last_check_in and assigning it.               *)
(***************************************************************************)

\* vesta.config.get('checkInFrequency', 30) * 60, in ticks of the clock.
check_in_frequency == 1

\* `last_check_in is None or
\*  (current_time - last_check_in).total_seconds() > check_in_frequency`
check_in_due(last, current_time) ==
    IF last = NoCheckIn THEN TRUE ELSE current_time - last > check_in_frequency

\* A step of the Flask backend.
FlaskOnly == UNCHANGED relay_vars /\ UNCHANGED http_vars

\* Time passes.
FlaskTick ==
    /\ clock < MaxClock
    /\ clock' = clock + 1
    /\ UNCHANGED <<last_check_in, request, check_ins>>
    /\ FlaskOnly

\* GET /api/get-scheduled-tasks on thread t: current_time = datetime.now()
TaskRequest(t) ==
    /\ request[t].at = "idle"
    /\ Len(check_ins) < MaxCheckIns
    /\ request' = [request EXCEPT ![t] = [at |-> "test", current_time |-> clock]]
    /\ UNCHANGED <<last_check_in, clock, check_ins>>
    /\ FlaskOnly

\* Thread t evaluates the condition of the check-in: it reads last_check_in.
\* When no check-in is due the response goes out without one.
TaskTest(t) ==
    /\ request[t].at = "test"
    /\ request' = [request EXCEPT ![t].at =
                       IF check_in_due(last_check_in, request[t].current_time)
                       THEN "assign"
                       ELSE "idle"]
    /\ UNCHANGED <<last_check_in, clock, check_ins>>
    /\ FlaskOnly

\* Thread t, having found a check-in due: last_check_in = current_time, the
\* check-in task is appended and the response returned.
TaskAssign(t) ==
    /\ request[t].at = "assign"
    /\ last_check_in' = request[t].current_time
    /\ check_ins' = Append(check_ins, [thread |-> t,
                                       time |-> request[t].current_time])
    /\ request' = [request EXCEPT ![t].at = "idle"]
    /\ UNCHANGED clock
    /\ FlaskOnly

InitFlask ==
    /\ apiKey = FALSE
    /\ agentId = FALSE
    /\ RelayIdle
    /\ HttpIdle
    /\ FlaskIdle

NextFlask ==
    \/ FlaskTick
    \/ \E t \in Threads : TaskRequest(t)
    \/ \E t \in Threads : TaskTest(t)
    \/ \E t \in Threads : TaskAssign(t)

SpecFlask == InitFlask /\ [][NextFlask]_vars

(***************************************************************************)
(* The claims.                                                             *)
(***************************************************************************)

\* The session of handler h as the registry shows it.
Phase(reg, act, sid, h) ==
    IF sid[h] = NoSession THEN "NONE"
    ELSE IF InReg(reg, h) THEN (IF act[h] THEN "ACTIVE" ELSE "CREATED")
    ELSE "ENDED"

\* The moves of CREATED -> ACTIVE -> ENDED, a session's creation included.
LegalMove(p, q) ==
    \/ p = q
    \/ <<p, q>> \in {<<"NONE", "CREATED">>, <<"NONE", "ENDED">>,
                     <<"CREATED", "ACTIVE">>, <<"ACTIVE", "ENDED">>,
                     <<"CREATED", "ENDED">>}

\* C1: once a connection handler has exited, the session it created is no longer
\* in the registry.
C1_NoSessionOutlivesConnection ==
    \A h \in Conns : pc[h] = "exited" => ~InRegistry(h)

\* C2: whenever end_conversation has run on a registered session (the engine's
\* end_session was called, returning or raising), the session is absent from the
\* registry afterwards.
C2_EndAlwaysRemoves ==
    [][\A o \in Conns :
          engine'[o].ends > engine[o].ends => ~InReg(conversations', o)]_vars

\* C3: when the engine's start_session raises (the start comes back without the
\* engine having started), the client is sent an error and the session is no
\* longer in the registry.
C3_FailedStartEndsSession ==
    [][\A h \in Conns :
          (/\ pc[h] = "starting"
           /\ pc'[h] = "recv"
           /\ engine'[conv_ref[h]].starts = engine[conv_ref[h]].starts)
          => /\ out'.conn = h
             /\ out'.msg.type = "error"
             /\ ~InReg(conversations', conv_ref[h])]_vars

\* C4: a start on a session that is already ACTIVE is answered with error, not
\* with conversation_started, and does not start the engine session again.
C4_DoubleStartRejected ==
    [][\A h \in Conns :
          (/\ pc[h] = "starting"
           /\ pc'[h] = "recv"
           /\ InRegistry(conv_ref[h])
           /\ is_active[conv_ref[h]])
          => /\ out'.conn = h
             /\ out'.msg.type = "error"
             /\ engine'[conv_ref[h]].starts = engine[conv_ref[h]].starts]_vars

\* C5: an end that runs while the session's start is in flight removes the
\* session, and the completion of that start neither puts the session back into
\* the registry nor leaves it registered as active.
C5_EndDuringStart ==
    [][\A h \in Conns :
          /\ (/\ pc[h] = "starting"
              /\ pc'[h] = "starting"
              /\ engine'[conv_ref[h]].ends > engine[conv_ref[h]].ends)
             => ~InReg(conversations', conv_ref[h])
          /\ (/\ pc[h] = "starting"
              /\ pc'[h] # "starting"
              /\ engine[conv_ref[h]].ends > 0)
             => ~InReg(conversations', conv_ref[h])]_vars

\* C6 as stated: the first message an accepted connection receives is
\* session_created with its session identifier, whatever the configuration.
C6_FirstMessageIsSessionCreated ==
    [][\A h \in Conns :
          (pc[h] = "idle" /\ out'.conn = h)
          => /\ out'.msg.type = "session_created"
             /\ out'.msg.session_id = session_id'[h]
             /\ session_id'[h] # NoSession]_vars

\* C6 as amended: with the engine configured, the first message a connection
\* receives is session_created carrying the identifier under which its session
\* is registered, and a start that reaches the engine is answered with
\* conversation_started when start_session returns and with error when it
\* raises; with the engine unconfigured the first and only message is error, and
\* no session is created.
C6_ConnectStartScenario ==
    [][\A h \in Conns :
          /\ (pc[h] = "idle" /\ pc'[h] = "recv") => out'.conn = h
          /\ (pc[h] = "idle" /\ out'.conn = h)
             => IF apiKey /\ agentId
                THEN /\ out'.msg.type = "session_created"
                     /\ out'.msg.session_id = session_id'[h]
                     /\ session_id'[h] \in DOMAIN conversations'
                     /\ conversations'[session_id'[h]] = h
                     /\ ~is_active'[h]
                     /\ pc'[h] = "recv"
                ELSE /\ out'.msg.type = "error"
                     /\ session_id'[h] = NoSession
                     /\ conversations' = conversations
                     /\ pc'[h] = "exited"
          /\ (pc[h] = "starting" /\ pc'[h] = "recv")
             => /\ out'.conn = h
                /\ out'.msg.type =
                      IF engine'[conv_ref[h]].starts > engine[conv_ref[h]].starts
                      THEN "conversation_started"
                      ELSE "error"]_vars

\* A start has been answered with conversation_started on a configured server.
C6_Witness ==
    /\ apiKey /\ agentId
    /\ \E h \in Conns : /\ out.conn = h
                        /\ out.msg.type = "conversation_started"
                        /\ engine[h].starts = 1

\* C7: with the API key or the agent identifier missing, create changes nothing:
\* the registry stays empty, no handler gets a session identifier, no session
\* record or engine handle is touched, no handler enters the receive loop, and
\* the only message ever sent is the configuration error, never session_created.
C7_UnconfiguredCreateFails ==
    ~(apiKey /\ agentId)
    => /\ DOMAIN conversations = {}
       /\ \A h \in Conns : /\ session_id[h] = NoSession
                           /\ ~is_active[h]
                           /\ engine[h] = [starts |-> 0, ends |-> 0]
                           /\ pc[h] \in {"idle", "exited"}
       /\ out.msg.type # "session_created"
       /\ out.conn # 0 => /\ out.msg.type = "error"
                          /\ out.msg.detail = "Server error: not configured"
                          /\ pc[out.conn] = "exited"

\* A connection was refused for want of the agent identifier and told so.
C7_Witness ==
    /\ apiKey /\ ~agentId
    /\ out.conn = 1
    /\ out.msg.type = "error"
    /\ pc[1] = "exited"

\* C8: once end_session has been called on a session, a further end on it is a
\* no-op: it does not call end_session again and leaves the registry as it is.
C8_EndIdempotent ==
    [][\A o \in Conns :
          engine[o].ends >= 1
          => /\ engine'[o].ends = engine[o].ends
             /\ InReg(conversations', o) <=> InReg(conversations, o)]_vars

\* C9: a session only moves CREATED -> ACTIVE, ACTIVE -> ENDED or
\* CREATED -> ENDED, and the active flag of an ended session is never set.
C9_StateMachine ==
    [][\A h \in Conns :
          /\ LegalMove(Phase(conversations, is_active, session_id, h),
                       Phase(conversations', is_active', session_id', h))
          /\ Phase(conversations, is_active, session_id, h) = "ENDED"
             => ~is_active'[h]]_vars

\* C10: no two creations ever return the same session identifier.
C10_IdentifiersNeverRepeat ==
    \A g, h \in Conns :
        (g # h /\ session_id[g] # NoSession /\ session_id[h] # NoSession)
        => session_id[g] # session_id[h]

\* C11: create_conversation never returns an identifier that is a key of the
\* registry at that moment, and storing the new session leaves every entry the
\* registry already holds as it was: no identifier is shared by two sessions
\* that are registered together.
C11_CreateNeverOverwrites ==
    [][\A h \in Conns :
          session_id'[h] # session_id[h] =>
              /\ session_id'[h] \notin DOMAIN conversations
              /\ \A k \in DOMAIN conversations :
                     k \in DOMAIN conversations' /\ conversations'[k] = conversations[k]]_vars

\* A session has just been created in the second in which another, still
\* registered, session was created.
C11_Witness ==
    /\ out.msg.type = "session_created"
    /\ \E g \in Conns, h \in Conns :
           /\ g # h
           /\ out.conn = h
           /\ session_id[g] \in DOMAIN conversations
           /\ session_id[h] \in DOMAIN conversations
           /\ conversations[session_id[g]] = g
           /\ conversations[session_id[h]] = h
           /\ session_id[g][1] = session_id[h][1]

\* C19: a control frame whose type is none of start, stop, text is answered, on
\* its own connection, with an error message that names the type; the handler
\* goes on to the next receive with the connection open, and the registry, the
\* sessions' is_active flags and the engines are as they were.
C19_UnknownTypeReported ==
    [][\A h \in Conns :
          (/\ inp'.conn = h
           /\ inp'.frame = "json"
           /\ inp'.type \notin {"start", "stop", "text"})
          => /\ out'.conn = h
             /\ out'.msg.type = "error"
             /\ out'.msg.detail = (IF inp'.type = "ping"
                                   THEN "Unknown message type: ping"
                                   ELSE "Unknown message type: None")
             /\ pc'[h] = "recv"
             /\ open'[h]
             /\ conversations' = conversations
             /\ is_active' = is_active
             /\ engine' = engine]_vars

\* A session that has been started has just received a frame without a type.
C19_Witness ==
    /\ inp.frame = "json"
    /\ inp.type = "None"
    /\ out.msg.type = "error"
    /\ out.conn = inp.conn
    /\ \E h \in Conns : inp.conn = h /\ is_active[h] /\ pc[h] = "recv"

\* C20: no single bad message ends the per-connection loop: after a text frame
\* that is no JSON object, or a control frame of an unknown type, the handler is
\* again in its receive loop and its session, if registered, still is.
C20_LoopSurvivesBadMessage ==
    [][\A h \in Conns :
          (/\ inp'.conn = h
           /\ \/ inp'.frame = "badtext"
              \/ inp'.frame = "json" /\ inp'.type \notin {"start", "stop", "text"})
          => /\ pc'[h] = "recv"
             /\ session_id[h] \in DOMAIN conversations
                    => session_id[h] \in DOMAIN conversations']_vars

\* C12: a listing taken between the handlers' steps is a snapshot: its count is
\* the number of its entries, every entry is a session whose creation has
\* returned, and no entry is a session on which end_conversation has returned.
C12_ListingIsSnapshot ==
    listing.taken =>
        /\ listing.count = Len(listing.conversations)
        /\ \A i \in 1..Len(listing.conversations) :
               LET e == listing.conversations[i]
               IN  /\ e.session_id \in DOMAIN conversations
                   /\ \E h \in Conns :
                          /\ conversations[e.session_id] = h
                          /\ session_id[h] = e.session_id
                          /\ pc[h] # "idle"
                          /\ engine[h].ends = 0

\* C13: a frame given to queue_audio while is_recording is false is appended to
\* the queue and not passed to the input callback; and the callback is never
\* called with a frame later than at the frame's own queue_audio: whenever the
\* frames forwarded change, the one frame added is the frame received in this
\* very step, and recording was on when it came.
C13_NotForwardedWhileNotRecording ==
    [][\A o \in Conns :
          /\ (/\ inp'.frame = "bytes"
              /\ session_id[inp'.conn] \in DOMAIN conversations
              /\ conversations[session_id[inp'.conn]] = o
              /\ ~is_recording[o])
             => /\ audio_queue'[o] = Append(audio_queue[o], audio_in')
                /\ forwarded'[o] = forwarded[o]
          /\ forwarded'[o] # forwarded[o]
             => /\ inp'.frame = "bytes"
                /\ is_recording[o]
                /\ forwarded'[o] = Append(forwarded[o], audio_in')]_vars

\* The engine has registered its callback and stopped the bridge again, and a
\* frame received since then lies in the queue without having been forwarded.
C13_Witness ==
    /\ inp.frame = "bytes"
    /\ \E o \in Conns :
           /\ input_callback[o]
           /\ ~is_recording[o]
           /\ Len(audio_queue[o]) > 0
           /\ audio_queue[o][Len(audio_queue[o])] = audio_in
           /\ \A i \in 1..Len(forwarded[o]) : forwarded[o][i] # audio_in

\* The sequence q holds the value f exactly n times.
Occurrences(q, f) == Cardinality({i \in 1..Len(q) : q[i] = f})

\* C14: a binary frame arriving on a connection whose session is registered is
\* put on the session's queue; if no start of the session has succeeded yet it
\* is not forwarded; if a start has succeeded and the engine has registered its
\* callback through the bridge's start (and has not stopped the bridge since),
\* the callback receives that same frame, and receives it once.
C14_QueuedThenForwardedOnce ==
    [][\A h \in Conns :
          (/\ inp'.conn = h
           /\ inp'.frame = "bytes"
           /\ session_id[h] \in DOMAIN conversations)
          => LET o == conversations[session_id[h]]
                 f == audio_in'
             IN  /\ audio_queue'[o] = Append(audio_queue[o], f)
                 /\ engine[o].starts = 0
                    => /\ forwarded'[o] = forwarded[o]
                       /\ Occurrences(forwarded'[o], f) = 0
                 /\ (engine[o].starts > 0 /\ input_callback[o] /\ is_recording[o])
                    => /\ forwarded'[o] = Append(forwarded[o], f)
                       /\ Occurrences(forwarded'[o], f) = 1
                       /\ Occurrences(audio_queue'[o], f) = 1]_vars

\* One frame came before the start and lies in the queue only; the next came
\* after the start, with the callback registered, and has been forwarded.
C14_Witness ==
    /\ inp.frame = "bytes"
    /\ \E o \in Conns :
           /\ engine[o].starts > 0
           /\ input_callback[o]
           /\ is_recording[o]
           /\ audio_queue[o] = <<1, 2>>
           /\ forwarded[o] = <<2>>

\* The sequence q is strictly increasing: its frames are in arrival order, none twice.
InArrivalOrder(q) == \A i \in 1..Len(q), j \in 1..Len(q) : i < j => q[i] < q[j]

\* C15: within one session the engine's callback sees the frames in the order
\* they arrived (frames are named by their arrival number): the frames forwarded
\* are a subsequence, in the same order, of the frames queued, and the queue
\* holds the frames in arrival order.
C15_InboundFifo ==
    \A o \in Conns :
        /\ InArrivalOrder(audio_queue[o])
        /\ InArrivalOrder(forwarded[o])
        /\ \A i \in 1..Len(forwarded[o]) :
               \E j \in 1..Len(audio_queue[o]) : audio_queue[o][j] = forwarded[o][i]

\* Two frames have been forwarded to the callback of one session.
C15_Witness ==
    \E o \in Conns : Len(forwarded[o]) = 2 /\ Len(audio_queue[o]) = 2

\* C16: within one session the audio messages written to the connection are in
\* the order of the engine's output calls (frames are named by the number of
\* their call), also after a wait that timed out with its send still scheduled.
C16_OutboundFifo ==
    \A o \in Conns :
        \A i \in 1..Len(delivered[o]), j \in 1..Len(delivered[o]) :
            i < j => delivered[o][i].frame < delivered[o][j].frame

\* Two frames of one session have been delivered, and the wait for the first
\* had timed out before it was sent.
C16_Witness ==
    \E o \in Conns :
        /\ Len(delivered[o]) = 2
        /\ delivered[o][1].frame \in late

\* C17: a call of output only schedules a send: it writes nothing to a
\* connection; and whenever an audio message is written to a connection, it is
\* the event loop that writes it, running the send scheduled first.
C17_WritesOnOwningLoop ==
    [][/\ out_n' # out_n
          => /\ delivered' = delivered
             /\ dropped' = dropped
             /\ Len(pending') = Len(pending) + 1
             /\ pending'[Len(pending')].frame = out_n'
       /\ \A o \in Conns :
             delivered'[o] # delivered[o]
             => /\ out_n' = out_n
                /\ pending # <<>>
                /\ Head(pending).conn = o
                /\ pending' = Tail(pending)
                /\ delivered'[o] =
                       Append(delivered[o], [frame |-> Head(pending).frame, by |-> "loop"])]_vars

\* A frame has been written to its connection and its output call has returned.
C17_Witness ==
    \E o \in Conns :
        /\ Len(delivered[o]) > 0
        /\ delivered[o][1].by = "loop"
        /\ thread[o] = [at |-> "idle", frame |-> 0]

\* C18: a send that fails because its connection has closed raises nothing into
\* the engine thread that called output (a thread that waited for this send is
\* outside output again, one that had timed out goes on as it was); the sends scheduled behind it stay scheduled, and the other
\* sessions' threads and connections are untouched.  No engine thread is ever
\* ended by an exception out of output.
C18_FailedDeliveryIsContained ==
    [][/\ \A o \in Conns : thread'[o].at \in {"idle", "waiting"}
       /\ \A h \in Conns :
             dropped'[h] # dropped[h]
             => /\ ~open[h]
                /\ thread'[h] = IF thread[h].frame = Head(pending).frame
                                THEN [at |-> "idle", frame |-> 0]
                                ELSE thread[h]
                /\ pending' = Tail(pending)
                /\ \A g \in Conns \ {h} :
                       /\ thread'[g] = thread[g]
                       /\ delivered'[g] = delivered[g]]_vars

\* An output made for a connection that had closed has failed; an output made
\* later for another session has been delivered.
C18_Witness ==
    \E h \in Conns, g \in Conns :
        /\ h # g
        /\ ~open[h]
        /\ 1 \in orphaned
        /\ dropped[h] = <<1>>
        /\ Len(delivered[g]) = 1
        /\ delivered[g][1].frame = 2
        /\ thread[h].at = "idle"

\* C21: a text message with text t is answered, on its own connection, with
\* text_response carrying "Echo: " followed by t, whatever the state of the
\* session (not started, active, ended); the handler stays in its loop and the
\* registry, the is_active flags and the engines are as they were.
C21_TextEchoed ==
    [][\A h \in Conns :
          (inp'.conn = h /\ inp'.frame = "json" /\ inp'.type = "text")
          => /\ out'.conn = h
             /\ out'.msg.type = "text_response"
             /\ out'.msg.detail = (IF inp'.text = "hi" THEN "Echo: hi" ELSE "Echo: ")
             /\ pc'[h] = "recv"
             /\ conversations' = conversations
             /\ is_active' = is_active
             /\ engine' = engine]_vars

\* The text "hi" has been echoed on a connection whose session had been stopped
\* and removed.
C21_Witness ==
    /\ inp.type = "text"
    /\ inp.text = "hi"
    /\ out.msg.detail = "Echo: hi"
    /\ \E h \in Conns :
           /\ inp.conn = h
           /\ session_id[h] # NoSession
           /\ session_id[h] \notin DOMAIN conversations
           /\ engine[h].ends > 0

\* A control frame is received only by a handler with no request outstanding,
\* and is answered in the same step by the one reply of its type; a start that
\* reaches the engine is answered when start_conversation returns, by
\* conversation_started or error, and nothing is sent on the connection in
\* between.
RepliesInOrder(h) ==
    /\ (inp'.conn = h /\ inp'.frame = "json")
       => /\ pc[h] = "recv"
          /\ inp'.type = "text"
             => out'.conn = h /\ out'.msg.type = "text_response"
          /\ inp'.type = "stop"
             => out'.conn = h /\ out'.msg.type = "conversation_stopped"
          /\ inp'.type = "start"
             => IF pc'[h] = "starting"
                THEN out'.conn = 0
                ELSE out'.conn = h /\ out'.msg.type = "error"
    /\ (pc[h] = "starting" /\ pc'[h] = "starting") => out'.conn # h
    /\ (pc[h] = "starting" /\ pc'[h] # "starting" /\ open[h])
       => /\ out'.conn = h
          /\ out'.msg.type \in {"conversation_started", "error"}
    /\ (out'.conn = h /\ out'.msg.type = "session_created") => pc[h] = "idle"

\* C22, as stated: every control message is answered by exactly one reply, in
\* the order of the requests, and the first message on every connection is
\* session_created.
C22_OneReplyPerRequest ==
    [][\A h \in Conns :
          /\ RepliesInOrder(h)
          /\ (pc[h] = "idle" /\ out'.conn = h)
             => out'.msg.type = "session_created"]_vars

\* C22, amended: the same, the first message being session_created where the
\* engine is configured, and error where it is not.
C22_OneReplyPerRequestConfigured ==
    [][\A h \in Conns :
          /\ RepliesInOrder(h)
          /\ (pc[h] = "idle" /\ out'.conn = h)
             => out'.msg.type =
                    (IF apiKey /\ agentId THEN "session_created" ELSE "error")]_vars

\* A session that had been started has just been stopped and the stop answered.
C22_Witness ==
    /\ inp.type = "stop"
    /\ out.msg.type = "conversation_stopped"
    /\ \E h \in Conns : inp.conn = h /\ out.conn = h /\ engine[h].starts > 0

\* C23: every call of output returns: a thread waiting in output, whether an
\* engine thread or the loop's own, whether or not the loop ever runs the send,
\* is outside output again after its bounded wait.
C23_OutputReturns ==
    \A o \in Conns : (thread[o].at = "waiting") ~> (thread[o].at = "idle")

\* An output call for a closed connection has returned by its timeout, its send
\* still scheduled on the loop.
C23_Witness ==
    \E o \in Conns :
        /\ thread[o].at = "idle"
        /\ loop_busy = 0
        /\ pending # <<>>
        /\ Head(pending).conn = o
        /\ Head(pending).frame \in late
        /\ ~open[o]

\* C24: while the start of one connection waits for start_session on its worker
\* thread, the loop serves the others: a connected client's text message, start
\* and audio frame can be received and processed, and a new connection can be
\* accepted.
C24_LoopFreeDuringStart ==
    \A h \in Conns :
        pc[h] = "starting" =>
            \A g \in Conns \ {h} :
                /\ (pc[g] = "recv" /\ open[g] /\ frames < MaxFrames)
                   => /\ ENABLED HandleText(g, "hi")
                      /\ ENABLED HandleStart(g)
                /\ (pc[g] = "recv" /\ open[g] /\ audio_in < MaxAudio)
                   => ENABLED ReceiveBytes(g)
                /\ (pc[g] = "idle" /\ \A k \in Conns : k < g => pc[k] # "idle")
                   => ENABLED (\E a \in Addrs : Connect(g, a, TRUE, TRUE))

\* An audio frame of one connection has been received and queued while the
\* start of another is in flight.
C24_Witness ==
    \E h \in Conns, g \in Conns :
        /\ h # g
        /\ pc[h] = "starting"
        /\ inp.conn = g
        /\ inp.frame = "bytes"
        /\ Len(audio_queue[g]) > 0

\* C25: no step of an output call -- the call itself, its send succeeding, its
\* send failing, its wait timing out -- changes the registry, a session's
\* is_active flag, a bridge's is_recording flag or a bridge's inbound queue.
C25_OutputTearsNothingDown ==
    [][(out_n' # out_n \/ pending' # pending \/ thread' # thread)
       => /\ conversations' = conversations
          /\ is_active' = is_active
          /\ is_recording' = is_recording
          /\ audio_queue' = audio_queue]_vars

\* A session whose connection has closed is still registered and active after
\* one of its deliveries failed and the wait for another timed out.
C25_Witness ==
    \E h \in Conns :
        /\ ~open[h]
        /\ dropped[h] # <<>>
        /\ late # {}
        /\ session_id[h] \in DOMAIN conversations
        /\ conversations[session_id[h]] = h
        /\ is_active[h]

\* C26: an exception of the engine's input callback inside queue_audio is caught:
\* the frame stays on the queue, the handler stays in its receive loop, the
\* registry and the session's active flag are untouched, and a frame that arrives
\* afterwards for a recording bridge is still handed to the callback.
C26_CallbackErrorContained ==
    [][LET h == inp'.conn
           f == audio_in'
       IN  /\ raised' # raised =>
                  /\ pc'[h] = "recv"
                  /\ open'[h]
                  /\ conversations' = conversations
                  /\ is_active' = is_active
                  /\ LET o == conversations[session_id[h]]
                     IN  /\ audio_queue'[o] = Append(audio_queue[o], f)
                         /\ \A g \in raised : Occurrences(audio_queue'[o], g)
                                                = Occurrences(audio_queue[o], g)
           /\ (/\ raised # {}
               /\ audio_in' # audio_in
               /\ session_id[h] \in DOMAIN conversations
               /\ input_callback[conversations[session_id[h]]]
               /\ is_recording[conversations[session_id[h]]])
              => LET o == conversations[session_id[h]]
                 IN  forwarded'[o] = Append(forwarded[o], f)]_vars

\* The callback raised on the first frame; the handler is still receiving, the
\* session is still registered and the second frame was forwarded after it.
C26_Witness ==
    \E h \in Conns :
        /\ raised = {1}
        /\ pc[h] = "recv"
        /\ session_id[h] \in DOMAIN conversations
        /\ conversations[session_id[h]] = h
        /\ audio_queue[h] = <<1, 2>>
        /\ forwarded[h] = <<1, 2>>


\* C27: once conversation_stopped has been sent to a connection, the bridge of
\* that connection's session is not recording.
C27_StoppedNotRecording ==
    out.msg = ConversationStopped => ~is_recording[out.conn]


\* C28: a frame whose wait in output timed out is dropped: no audio message
\* written to a connection carries a frame whose wait had timed out.
C28_TimedOutNeverSent ==
    \A o \in Conns :
        \A i \in 1..Len(delivered[o]) : delivered[o][i].frame \notin late


\* C29: an ended session is not reused.  A `start` that a connection sends right
\* after its `stop` is answered with the error for a session that is not found;
\* no engine start is begun and the registry stays as the stop left it.
C29_NoRestartAfterStop ==
    [][\A h \in Conns :
           (/\ inp = Frame(h, "json", "stop")
            /\ inp' = Frame(h, "json", "start"))
           => /\ out' = [conn |-> h, msg |-> ErrNotFound]
              /\ pc'[h] = "recv"
              /\ conversations' = conversations
              /\ engine' = engine]_vars


\* C30: each connection is bound to one session.  The registry gains an entry
\* only when a handler is accepted: one entry, owned by that handler, under the
\* identifier the handler keeps from then on; a handler that serves messages has
\* an identifier; and no two entries of the registry reference the same
\* connection.
C30_OneSessionPerConnection ==
    [][/\ \A h \in Conns :
              /\ session_id[h] # NoSession => session_id'[h] = session_id[h]
              /\ pc'[h] \in {"recv", "starting"} => session_id'[h] # NoSession
       /\ \A k \in DOMAIN conversations' :
              (k \notin DOMAIN conversations \/ conversations'[k] # conversations[k])
              => LET h == conversations'[k]
                 IN  /\ pc[h] = "idle"
                     /\ pc'[h] # "idle"
                     /\ session_id[h] = NoSession
                     /\ session_id'[h] = k
                     /\ ~InRegistry(h)
       /\ \A k1 \in DOMAIN conversations', k2 \in DOMAIN conversations' :
              conversations'[k1] = conversations'[k2] => k1 = k2]_vars

\* A handler whose session was removed by its `stop` has received a `start`
\* after it: it is still serving, no session was made for it, and the other
\* connection has its own entry in the registry.
C30_Witness ==
    \E h \in Conns, g \in Conns :
        /\ h # g
        /\ pc[h] = "recv"
        /\ inp = Frame(h, "json", "start")
        /\ out = [conn |-> h, msg |-> ErrNotFound]
        /\ ~InRegistry(h)
        /\ session_id[h] \notin DOMAIN conversations
        /\ InRegistry(g)
        /\ conversations[session_id[g]] = g


\* C31: conversation_started is sent to a connection only while that connection's
\* session is in the registry and active.
C31_StartedOnlyWhenRegistered ==
    \A h \in Conns :
        out = [conn |-> h, msg |-> ConversationStarted]
        => /\ session_id[h] \in DOMAIN conversations
           /\ is_active[conversations[session_id[h]]]


\* C32: a binary frame that arrives while the connection's session is not in the
\* registry is dropped: no bridge queues or forwards it, nothing is sent, and the
\* handler stays in its receive loop; and a frame reaches the engine's callback
\* only for a session that is in the registry.
C32_AudioDroppedWhenUnregistered ==
    [][/\ \A h \in Conns :
              (/\ inp' = Frame(h, "bytes", "")
               /\ session_id[h] \notin DOMAIN conversations)
              => /\ audio_queue' = audio_queue
                 /\ forwarded' = forwarded
                 /\ is_recording' = is_recording
                 /\ out'.conn = 0
                 /\ pc'[h] = "recv"
                 /\ open'[h]
       /\ \A o \in Conns :
              forwarded'[o] # forwarded[o]
              => \E k \in DOMAIN conversations : conversations[k] = o]_vars

\* The second frame of a connection arrived after its `stop` had removed the
\* session, with the engine's callback still set and recording: only the first
\* frame is on the queue and was forwarded.
C32_Witness ==
    \E h \in Conns :
        /\ inp = Frame(h, "bytes", "")
        /\ audio_in = 2
        /\ pc[h] = "recv"
        /\ session_id[h] # NoSession
        /\ session_id[h] \notin DOMAIN conversations
        /\ input_callback[h]
        /\ is_recording[h]
        /\ audio_queue[h] = <<1>>
        /\ forwarded[h] = <<1>>


\* C33: once conversation_stopped has been sent on a connection, no audio
\* message is sent on it: in particular the step that follows the sending of
\* conversation_stopped writes no audio message to that connection.
C33_NoAudioAfterStopped ==
    [][\A h \in Conns :
           out = [conn |-> h, msg |-> ConversationStopped]
           => delivered'[h] = delivered[h]]_vars


\* C34: once the connection of a handler is closed, the session created for it
\* is eventually out of the registry, a close during an in-flight start
\* included, given that the in-flight start returns or raises.
C34_ClosedSessionRemoved ==
    \A h \in Conns :
        (/\ pc[h] \in {"starting", "exited"}
         /\ ~open[h]
         /\ session_id[h] \in DOMAIN conversations)
        ~> (session_id[h] \notin DOMAIN conversations)


\* C35: when shutdown_event has completed the registry is empty: every session
\* it found there has been ended and removed.
C35_ShutdownEmptiesRegistry ==
    [][(~shut /\ shut')
       => /\ DOMAIN conversations' = {}
          /\ \A k \in DOMAIN conversations :
                 engine'[conversations[k]].ends = engine[conversations[k]].ends + 1]_vars

\* C36: the stored history of a session of the HTTP backend never holds more
\* than 2 * MAX_HISTORY_LENGTH entries, generate_response passes at most the
\* MAX_HISTORY_LENGTH most recent entries to the model, and add_to_history on an
\* unknown session changes nothing.
C36_HistoryBounded ==
    [][/\ \A sid \in DOMAIN sessions' :
              Len(sessions'[sid]) <= 2 * MAX_HISTORY_LENGTH
       /\ \A r \in Calls :
              /\ Len(gen'[r].messages) <= MAX_HISTORY_LENGTH
              /\ (gen[r].at = "idle" /\ gen'[r].at = "model")
                 => LET h == sessions'[gen'[r].session]
                        m == gen'[r].messages
                    IN  \A i \in 1..Len(m) : m[i] = h[Len(h) - Len(m) + i]
              /\ (gen[r].at = "model" /\ gen'[r].at # "model"
                                       /\ gen[r].session \notin DOMAIN sessions)
                 => sessions' = sessions]_vars


\* C37: in every history of the HTTP backend the user entry of a call is
\* directly followed by the assistant entry of the same call, an assistant
\* entry is directly preceded by the user entry of its call unless that was cut
\* off, and every entry is from a call whose model request returned: a failed
\* call has appended nothing.
C37_EntriesAdjacent ==
    \A sid \in DOMAIN sessions :
        LET h == sessions[sid]
        IN  \A i \in 1..Len(h) :
                /\ gen[h[i].call].at = "done"
                /\ gen[h[i].call].session = sid
                /\ h[i].role = "user"
                   => /\ i < Len(h)
                      /\ h[i + 1] = [role |-> "assistant", call |-> h[i].call]
                /\ (h[i].role = "assistant" /\ i > 1)
                   => h[i - 1] = [role |-> "user", call |-> h[i].call]

\* Three calls for one session were in the model at the same time: the second
\* returned first, then the first, and the third failed.
C37_Witness ==
    \E sid \in DOMAIN sessions :
        /\ sessions[sid] = << [role |-> "user", call |-> 2],
                              [role |-> "assistant", call |-> 2],
                              [role |-> "user", call |-> 1],
                              [role |-> "assistant", call |-> 1] >>
        /\ gen[3] = [at |-> "failed", session |-> sid, messages |-> <<>>]
        /\ gen[2].messages = <<>>


\* C38: between any two responses of the Flask backend that hold a check-in
\* task more than checkInFrequency has elapsed, the time of a response being the
\* current_time its request took.
C38_CheckInOncePerInterval ==
    \A i \in 1..Len(check_ins), j \in 1..Len(check_ins) :
        i < j => check_ins[j].time - check_ins[i].time > check_in_frequency

==============================================================================
